---- MODULE Spec2Model ----
(***************************************************************************)
(* Model of the class-based content synchronizer of sync-content.js:       *)
(* ContentSynchronizer.sync and the services it drives (DriveService,      *)
(* ContentProcessor, GitService, GitProviderService).                      *)
(*                                                                         *)
(* Texts (documents, folder names) are sequences of tokens, so that the    *)
(* regular expressions of the code are evaluated on them as the regex      *)
(* engine evaluates them on characters.  Times are integers (milliseconds  *)
(* of the wall clock).                                                     *)
(***************************************************************************)
EXTENDS Integers, Sequences, FiniteSets, TLC

\* ------------------------------------------------------------------ bounds
\* Number of folders the Drive root lists, and the number of external calls
\* that fail, in a single run: in a run that starts from a clean working tree
\* and processes the folders, and in a run that resumes or fails its preflight.
MaxUnits == 2
UnitFaults == 1
MaxFaults == 2
\* Number of consecutive runs of the script in one working directory, and the
\* number of external calls that fail in them.
MaxRuns == 2
RunsFaults == 1
\* Number of folders of a single run over a longer listing, and the number of
\* external calls that fail in it.
ManyUnits == 3
ManyFaults == 1
\* Wall-clock time at which the first run is started.
InitNow == 3
\* Failures in the run over folders with similar names.
SlugFaults == 1
\* Failures in the run over folders that are up to date or have no document.
PairFaults == 1
\* Failures in the runs between which Drive changes.
DriveFaults == 1
\* Failures in the run that is compared with the function-based script.
VariantFaults == 1
\* Largest file list and latest sync time a metadata comment is built from.
MaxManifest == 3
MaxTime == 2

\* ------------------------------------------------------------------ tokens
Tok(k, v) == [k |-> k, v |-> v]
OPEN == Tok("<!--", 0)
HDR == Tok("SYNC_METADATA:", 0)
LS == Tok("last_sync:", 0)
SF == Tok("source_files:", 0)
CLOSE == Tok("-->", 0)
WS == Tok("ws", 0)
SEP == Tok(", ", 0)
\* Date.prototype.toISOString of the time t (millisecond precision).
Iso(t) == Tok("iso", t)
\* `${f.name} (${f.id})`
FileTok(id) == Tok("file", id)
\* Markdown text produced by the transformer.
Text(n) == Tok("text", n)
\* A last_sync value that new Date() cannot parse.
Garbage == Tok("garbage", 0)

IsWs(t) == t.k = "ws"

\* fs.readFile of a path that does not exist (ENOENT).
NoFile == << Tok("ENOENT", 0) >>

\* new Date(x) of an unparseable x: an Invalid Date, whose time value is NaN.
InvalidDate == -1

\* ------------------------------------------------------- ContentProcessor
\* The file whose name on Drive holds the characters "-->".
ArrowId == 7

\* `${f.name} (${f.id})`: the name is the text of the editors.
FileName(id) ==
    IF id = ArrowId THEN << FileTok(id), CLOSE, FileTok(id) >> ELSE << FileTok(id) >>

\* Join of the file list: files.map(f => `${f.name} (${f.id})`).join(', ')
RECURSIVE FileList(_)
FileList(files) ==
    IF files = << >> THEN << >>
    ELSE IF Len(files) = 1 THEN FileName(files[1].id)
    ELSE FileName(files[1].id) \o << SEP >> \o FileList(Tail(files))

createMetadataComment(files, timestamp) ==
    << OPEN, WS, HDR, WS, LS, WS, Iso(timestamp), WS, SF, WS >>
        \o FileList(files) \o << WS, CLOSE, WS >>

\* new Date(string): only an ISO timestamp parses.
DateParse(g) ==
    IF Len(g) = 1 /\ g[1].k = "iso" THEN g[1].v ELSE InvalidDate

\* First position >= p of s that holds no whitespace (Len(s)+1 if none).
RECURSIVE SkipWs(_, _)
SkipWs(s, p) ==
    IF p > Len(s) THEN Len(s) + 1
    ELSE IF IsWs(s[p]) THEN SkipWs(s, p + 1)
    ELSE p

\* Position of literal lit after p, whitespace only in between (\s*lit); 0 if none.
LitAfter(s, p, lit) ==
    LET q == SkipWs(s, p + 1)
    IN  IF q <= Len(s) /\ s[q] = lit THEN q ELSE 0

\* \s*(.+?)\s*lit after position p: the pairs <<start, end>> of the group for
\* which lit follows.  \s* is greedy, so the group may start anywhere in the
\* whitespace run after p or at the first token after it.
GroupsBefore(s, p, lit) ==
    { g \in ((p + 1)..SkipWs(s, p + 1)) \X ((p + 1)..Len(s)) :
        /\ g[1] <= Len(s)
        /\ g[1] <= g[2]
        /\ LitAfter(s, g[2], lit) # 0 }

SetMax(S) == CHOOSE x \in S : \A y \in S : y <= x
SetMin(S) == CHOOSE x \in S : \A y \in S : x <= y

\* The group the backtracking engine settles on among a set of candidates:
\* greedy \s* (latest start) first, then lazy .+? (earliest end).
Preferred(G) ==
    LET st == SetMax({ g[1] : g \in G })
        en == SetMin({ g[2] : g \in { h \in G : h[1] = st } })
    IN  << st, en >>

\* Candidates of the first group (last_sync) after the literal at l: those
\* after which the rest of the expression matches.
FirstGroups(s, l) ==
    { g \in GroupsBefore(s, l, SF) :
        GroupsBefore(s, LitAfter(s, g[2], SF), CLOSE) # {} }

\* Whether metadataRegex matches with "<!--" at position i.
MatchesAt(s, i) ==
    /\ s[i] = OPEN
    /\ LET h == LitAfter(s, i, HDR)
       IN  /\ h # 0
           /\ LET l == LitAfter(s, h, LS)
              IN  /\ l # 0
                  /\ FirstGroups(s, l) # {}

\* The watermark of a document, or the null record.
Null == [null |-> TRUE, lastSync |-> InvalidDate, sourceFiles |-> << >>]

extractMetadata(content) ==
    LET starts == { i \in 1..Len(content) : MatchesAt(content, i) }
    IN  IF starts = {} THEN Null
        ELSE LET i == SetMin(starts)
                 l == LitAfter(content, LitAfter(content, i, HDR), LS)
                 g1 == Preferred(FirstGroups(content, l))
                 f == LitAfter(content, g1[2], SF)
                 g2 == Preferred(GroupsBefore(content, f, CLOSE))
             IN  [null |-> FALSE,
                  lastSync |-> DateParse(SubSeq(content, g1[1], g1[2])),
                  sourceFiles |-> SubSeq(content, g2[1], g2[2])]

\* Whether /<!--\s*SYNC_METADATA:.*?-->/s matches with "<!--" at position i.
BlockAt(s, i) ==
    /\ s[i] = OPEN
    /\ LitAfter(s, i, HDR) # 0
    /\ \E c \in (LitAfter(s, i, HDR) + 1)..Len(s) : s[c] = CLOSE

HasBlock(s) == \E i \in 1..Len(s) : BlockAt(s, i)

\* content.replace(/<!--\s*SYNC_METADATA:.*?-->/s, ''): the first match, up to
\* the first "-->" after the header, is taken out.
StripMetadata(s) ==
    IF ~HasBlock(s) THEN s
    ELSE LET i == SetMin({ k \in 1..Len(s) : BlockAt(s, k) })
             c == SetMin({ k \in (LitAfter(s, i, HDR) + 1)..Len(s) : s[k] = CLOSE })
         IN  SubSeq(s, 1, i - 1) \o SubSeq(s, c + 1, Len(s))

\* String.prototype.trim
RECURSIVE Trim(_)
Trim(s) ==
    IF s = << >> THEN s
    ELSE IF IsWs(s[1]) THEN Trim(Tail(s))
    ELSE IF IsWs(s[Len(s)]) THEN Trim(SubSeq(s, 1, Len(s) - 1))
    ELSE s

\* let existingContent = null, for a file that cannot be read.
NullContent == << Tok("null", 0) >>

\* processFolder: the existing content handed to the transformer.
PriorDocument(content) ==
    IF content = NoFile THEN NullContent ELSE Trim(StripMetadata(content))

\* ------------------------------------------------------------ file names
\* A name is a sequence of characters; these are the characters in use.
Chars == { "A", "a", "B", "b", "C", "c", "D", "d", " ", "-", "/" }
Lower(c) ==
    CASE c = "A" -> "a" [] c = "B" -> "b" [] c = "C" -> "c" [] c = "D" -> "d"
      [] OTHER -> c
\* The class [a-zA-Z0-9\/] of sanitizeFolderName.
IsSlugChar(c) == c \notin { " ", "-" }

RECURSIVE ToLowerCase(_)
ToLowerCase(name) ==
    IF name = << >> THEN << >>
    ELSE << Lower(Head(name)) >> \o ToLowerCase(Tail(name))

\* replace(/[^a-zA-Z0-9\/]+/g, '-'): every maximal run becomes one dash.
RECURSIVE ReplaceRuns(_, _)
ReplaceRuns(name, inRun) ==
    IF name = << >> THEN << >>
    ELSE IF IsSlugChar(Head(name))
         THEN << Head(name) >> \o ReplaceRuns(Tail(name), FALSE)
         ELSE (IF inRun THEN << >> ELSE << "-" >>) \o ReplaceRuns(Tail(name), TRUE)

\* replace(/^-|-$/g, ''): one leading and one trailing dash are dropped.
StripDashes(s) ==
    LET a == IF s # << >> /\ Head(s) = "-" THEN Tail(s) ELSE s
    IN  IF a # << >> /\ a[Len(a)] = "-" THEN SubSeq(a, 1, Len(a) - 1) ELSE a

sanitizeFolderName(name) == StripDashes(ReplaceRuns(ToLowerCase(name), FALSE))

\* ------------------------------------------------------------ DriveService
\* The newest modifiedTime of a non-empty listing (the reduce of
\* getLatestModifiedTime: the first file with the greatest time).
LatestModifiedTime(files) ==
    SetMax({ files[i].mtime : i \in 1..Len(files) })

\* --------------------------------------------- ContentSynchronizer (pure)
\* A comparison that takes equal times for newer.
IsNewerOrEqual(driveModifiedTime, lastSync) == driveModifiedTime >= lastSync

\* return driveModifiedTime > lastSync
IsNewer(driveModifiedTime, lastSync) == driveModifiedTime > lastSync

\* A catch that takes the unit for up to date.
SkipOnError == FALSE

\* The outer catch of checkIfUpdateNeeded: return true.
UpdateOnError == TRUE

\* checkIfUpdateNeeded on the content read at mdFilePath and the outcome of
\* driveService.listFiles (listOk: it returned files; else it threw).
checkIfUpdateNeeded(content, listOk, files) ==
    IF content = NoFile THEN TRUE
    ELSE LET localMetadata == extractMetadata(content)
         IN  IF localMetadata.null THEN TRUE
             ELSE IF ~listOk THEN UpdateOnError
             ELSE IF files = << >> THEN FALSE
             \* lastSync.toISOString() of an Invalid Date throws a RangeError,
             \* which the outer catch turns into true
             ELSE IF localMetadata.lastSync = InvalidDate THEN UpdateOnError
             ELSE IsNewer(LatestModifiedTime(files), localMetadata.lastSync)

\* Whether checkIfUpdateNeeded reaches the Drive listing for this content.
CheckListsDrive(content) ==
    content # NoFile /\ ~extractMetadata(content).null

\* The label pushed to processedFolders in skip mode.
Sentinel == << "Vorhandene Aenderungen" >>

\* ------------------------------------------------------------------ state
Branch(k, t) == [k |-> k, t |-> t]
\* The branch the repository is cloned on.
MainBranch == Branch("main", 0)
\* contentupdate/<timestamp>
SyncBranch(t) == Branch("contentupdate", t)
\* this.baseBranch = null
NoBranch == Branch("null", 0)

\* Display names of the folders of the Drive root, in listing order.
FolderNames == << << "A" >>, << "B" >>, << "C" >>, << "D" >> >>

\* Paths of the working tree, by the directory they start with.
DocPath(slug) == [top |-> "docs", kind |-> "md", slug |-> slug, id |-> 0]
AssetPath(slug, id) == [top |-> "docs", kind |-> "asset", slug |-> slug, id |-> id]
\* An uncommitted file under the content path that no unit owns.
StrayPath == [top |-> "docs", kind |-> "stray", slug |-> << >>, id |-> 0]
\* An uncommitted file outside the content path.
OtherPath == [top |-> "other", kind |-> "stray", slug |-> << >>, id |-> 0]
\* A file under the content path that git status reports as modified while
\* its content, once staged, equals the committed one (line endings, file
\* mode): git add leaves nothing of it in the index.
PhantomPath == [top |-> "docs", kind |-> "phantom", slug |-> << >>, id |-> 0]

VARIABLES
    \* Google Drive
    driveFolders,       \* listing of the root: sequence of [id, name]
    driveFiles,         \* folder id -> listing of the folder
    \* configuration
    config,             \* the set of required keys that are set
    \* repository
    wt,                 \* working tree: [docs, assets, extra]
    head,               \* branch -> committed tree [docs, assets]
    branch,             \* the branch checked out
    remoteBranches,     \* branches that exist on the remote
    commits,            \* commits made by the script
    mrs,                \* merge requests opened
    \* ContentSynchronizer fields
    changesDetected, processedFolders, contextDocuments, baseBranch,
    \* position and locals of sync / processFolder / createAndSubmitMergeRequest
    pc, folders, idx, localMetadata, files, fetched, transformedContent,
    branchName, exitCode,
    error,              \* the error sync has caught, thrown again to main
    \* observation of the run
    now, run, runsLeft, faults, budget, startDirty, statusRead, mode, vcLog, called,
    written, unitState, crash,
    contextPassed,      \* the context lists passed to the transformer
    existingContent,    \* the prior document last passed to the transformer
    docSource           \* slug -> what the document in the tree was made from,
                        \* kept while a later run can see the document

\* The folders of the Drive root and the paths of their documents.
Units == 1..Len(driveFolders)
Slugs == { sanitizeFolderName(driveFolders[u].name) : u \in Units }

driveVars == << driveFolders, driveFiles >>
repoVars == << wt, head, branch, remoteBranches, commits, mrs >>
fieldVars == << changesDetected, processedFolders, contextDocuments, baseBranch >>
localVars == << folders, idx, localMetadata, files, fetched, transformedContent,
               branchName >>
runVars == << run, runsLeft, budget, startDirty, crash >>
obsVars == << statusRead, mode, vcLog, called, written, unitState, contextPassed,
             existingContent >>
vars == << driveVars, config, repoVars, fieldVars, pc, localVars, exitCode, error,
           now, faults, runVars, obsVars, docSource >>

\* ------------------------------------------------------------------- Init
\* A document that no run of the script has written.
NoSource == [known |-> FALSE, listed |-> << >>, fetched |-> << >>, stamp |-> 0]

\* validateConfig: the keys that must be set.
RequiredKeys == { "driveFolderId", "googleApiKey", "gitAccessToken", "gitProjectId" }

Item(id, kind, mtime) == [id |-> id, kind |-> kind, mtime |-> mtime]

\* Listings of folder u (Drive lists them newest first): empty; one document
\* last modified before the committed watermark; an image modified after it
\* and a document modified before it; a sheet modified exactly at the time of
\* the watermark and a file of a kind the script does not handle.
EmptyListing == << >>
OldListing(u) == << Item(10 * u + 1, "doc", InitNow - 2) >>
NewListing(u) ==
    << Item(10 * u + 1, "image", InitNow), Item(10 * u + 2, "doc", InitNow - 2) >>
MixedListing(u) ==
    << Item(10 * u + 1, "sheet", InitNow - 1), Item(10 * u + 2, "other", InitNow - 2) >>

Listing(u, c) ==
    CASE c = 0 -> EmptyListing
      [] c = 1 -> OldListing(u)
      [] c = 2 -> NewListing(u)
      [] OTHER -> MixedListing(u)

\* Documents committed on the main branch before the first run: without a
\* metadata comment, with the comment of a sync at InitNow - 1, with a
\* last_sync value that is no timestamp, with the source_files field missing.
PlainDoc == << Text(0) >>
ValidDoc == << Text(0), WS >> \o createMetadataComment(<< Item(1, "doc", 0) >>, InitNow - 1)
GarbledDoc ==
    << Text(0), WS, OPEN, WS, HDR, WS, LS, WS, Garbage, WS, SF, WS, FileTok(1), WS,
       CLOSE, WS >>
TruncatedDoc == << Text(0), WS, OPEN, WS, HDR, WS, LS, WS, Iso(InitNow - 1), WS, CLOSE >>

NoLocals ==
    /\ folders = << >>
    /\ idx = 0
    /\ localMetadata = Null
    /\ files = << >>
    /\ fetched = << >>
    /\ transformedContent = << >>
    /\ branchName = NoBranch

InitNamed(names, docChoices, listingChoices, extraChoices, configChoices, runs, failures) ==
    /\ driveFolders = [u \in 1..Len(names) |-> [id |-> u, name |-> names[u]]]
    /\ driveFiles \in { [u \in Units |-> Listing(u, k[u])] :
                          k \in [Units -> listingChoices] }
    /\ config \in configChoices
    /\ \E d \in [Slugs -> docChoices], x \in extraChoices :
          /\ head = (MainBranch :> [docs |-> d, assets |-> {}])
          /\ wt = [docs |-> d, assets |-> {}, extra |-> x]
    /\ branch = MainBranch
    /\ remoteBranches = { MainBranch }
    /\ commits = << >>
    /\ mrs = {}
    /\ changesDetected = FALSE
    /\ processedFolders = << >>
    /\ contextDocuments = << >>
    /\ baseBranch = NoBranch
    /\ pc = "idle"
    /\ NoLocals
    /\ exitCode = "none"
    /\ error = "none"
    /\ now = InitNow
    /\ run = 0
    /\ runsLeft = runs
    /\ faults = 0
    /\ budget = failures
    /\ startDirty = FALSE
    /\ statusRead = "none"
    /\ mode = "none"
    /\ vcLog = << >>
    /\ called = {}
    /\ written = {}
    /\ unitState = [u \in Units |-> "pending"]
    /\ crash = [at |-> "none", written |-> {}]
    /\ contextPassed = {}
    /\ existingContent = NullContent
    /\ docSource = [sl \in Slugs |-> NoSource]

InitWith(n, docChoices, listingChoices, extraChoices, configChoices, runs, failures) ==
    InitNamed(SubSeq(FolderNames, 1, n), docChoices, listingChoices, extraChoices,
              configChoices, runs, failures)

\* One run with every key configured and a clean working tree: from every
\* combination of absent, unstamped, stamped and truncated documents, each
\* folder listing files newer than the watermark; from validly stamped
\* documents and every combination of listings; from documents with a garbled
\* watermark and folders that are empty or hold newer files.  One run with
\* uncommitted files in the tree.  One run with a required key missing.
Init ==
    \/ InitWith(MaxUnits, { NoFile, PlainDoc, ValidDoc, TruncatedDoc },
                { 2 }, { {} }, { RequiredKeys }, 1, UnitFaults)
    \/ InitWith(MaxUnits, { ValidDoc }, 0..3, { {} }, { RequiredKeys }, 1, UnitFaults)
    \/ InitWith(MaxUnits, { GarbledDoc }, { 0, 2 }, { {} }, { RequiredKeys }, 1,
                UnitFaults)
    \/ InitWith(MaxUnits, { NoFile, ValidDoc }, { 2 },
                { { StrayPath }, { OtherPath }, { StrayPath, OtherPath },
                  { PhantomPath } },
                { RequiredKeys }, 1, MaxFaults)
    \/ InitWith(MaxUnits, { NoFile }, { 2 }, { {}, { StrayPath } },
                { RequiredKeys \ { k } : k \in RequiredKeys }, 1, MaxFaults)

\* Consecutive runs in one working directory, with every key configured.
InitRuns ==
    InitWith(MaxUnits, { NoFile, ValidDoc }, 1..2, { {} }, { RequiredKeys }, MaxRuns,
             RunsFaults)

\* One run over a longer listing of folders.
InitUnits ==
    InitWith(ManyUnits, { NoFile, ValidDoc }, 1..2, { {} }, { RequiredKeys }, 1,
             ManyFaults)

\* One run over two folders of the Drive root whose names may be the same, or
\* differ only in case or in the characters sanitizeFolderName replaces.
SecondNames == { << "B" >>, << "A" >>, << "a" >>, << "A", " " >>, << "-", "a" >> }
InitSlugs ==
    \E second \in SecondNames :
        InitNamed(<< << "A" >>, second >>, { NoFile, ValidDoc }, { 2 }, { {} },
                  { RequiredKeys }, 1, SlugFaults)

\* One run over folders each of which either has no document or a validly
\* stamped one, and lists files none of which is newer than that stamp.
InitPair ==
    InitWith(MaxUnits, { NoFile, ValidDoc }, { 1, 3 }, { {} }, { RequiredKeys }, 1,
             PairFaults)

\* Consecutive runs in one working directory over a single folder that has
\* no document yet.
InitTwice ==
    InitNamed(<< FolderNames[1] >>, { NoFile }, { 2 }, { {} }, { RequiredKeys },
              MaxRuns, RunsFaults)

\* ------------------------------------------------------------- repository
\* status.files: the paths that differ from the commit checked out.
Changes ==
    { DocPath(sl) : sl \in { x \in Slugs : wt.docs[x] # head[branch].docs[x] } }
        \cup (wt.assets \ head[branch].assets) \cup wt.extra

\* status.files after git add .: what is staged for the commit.
Staged == { p \in Changes : p.kind # "phantom" }

\* A filter that lets every changed path through.
AllChanges == Changes

\* file.path.startsWith(contentPath + '/')
ContentChanges == { p \in Changes : p.top = "docs" }

\* git checkout of a branch: uncommitted changes are carried over, the rest of
\* the tree becomes the target's; it is refused when a changed file differs
\* between the two commits.
CheckoutConflict(from, to) ==
    \E sl \in Slugs : wt.docs[sl] # from.docs[sl] /\ from.docs[sl] # to.docs[sl]

CheckoutTree(from, to) ==
    [docs |-> [sl \in Slugs |->
                 IF wt.docs[sl] # from.docs[sl] THEN wt.docs[sl] ELSE to.docs[sl]],
     assets |-> (wt.assets \ from.assets) \cup to.assets,
     extra |-> wt.extra]

\* An external call may fail while the run's budget of failures lasts.
CanFail == faults < budget
Outcome(ok) ==
    /\ ok \/ CanFail
    /\ faults' = IF ok THEN faults ELSE faults + 1

\* A returnToBranch that checks nothing out.
returnToBranchNoop(branchTo, ok) == UNCHANGED << branch, wt, vcLog >>

\* A returnToBranch that lets the error of a failed checkout out.
ReturnThrowsOnFailure(branchTo, ok) ==
    ~(ok /\ ~CheckoutConflict(head[branch], head[branchTo]))

\* The catch of GitService.returnToBranch: the error is logged, never thrown.
ReturnThrows(branchTo, ok) == FALSE

\* GitService.returnToBranch: git checkout of the branch.
returnToBranch(branchTo, ok) ==
    IF ok /\ ~CheckoutConflict(head[branch], head[branchTo])
    THEN /\ branch' = branchTo
         /\ wt' = CheckoutTree(head[branch], head[branchTo])
         /\ vcLog' = Append(vcLog, "checkout")
    ELSE UNCHANGED << branch, wt, vcLog >>

ResetLocals ==
    /\ folders' = << >>
    /\ idx' = 0
    /\ localMetadata' = Null
    /\ files' = << >>
    /\ fetched' = << >>
    /\ transformedContent' = << >>
    /\ branchName' = NoBranch

\* ------------------------------------------------------------------- main
\* node sync-content.js: main() constructs a ContentSynchronizer and calls sync.
StartRun ==
    /\ pc \in { "idle", "done", "failed", "crashed" }
    /\ runsLeft > 0
    /\ runsLeft' = runsLeft - 1
    /\ run' = run + 1
    /\ now' = now + 1
    /\ changesDetected' = FALSE
    /\ processedFolders' = << >>
    /\ contextDocuments' = << >>
    /\ baseBranch' = NoBranch
    /\ pc' = "validate"
    /\ ResetLocals
    /\ exitCode' = "none"
    /\ error' = "none"
    /\ mode' = "none"
    /\ vcLog' = << >>
    /\ called' = {}
    /\ contextPassed' = {}
    /\ existingContent' = NullContent
    /\ written' = {}
    /\ unitState' = [u \in Units |-> "pending"]
    /\ crash' = IF pc = "crashed" THEN crash ELSE [at |-> "none", written |-> {}]
    /\ startDirty' = (ContentChanges # {})
    /\ statusRead' = "none"
    /\ UNCHANGED << driveVars, config, repoVars, faults, budget, docSource >>

\* Where in sync the process was when it was killed.
Phase(at) ==
    CASE at \in { "branch", "commit", "push" } -> at
      [] at \in { "loop", "listFiles", "mkdir", "files", "transform", "write" } -> "units"
      [] at \in { "mr", "return" } -> "pushed"
      [] OTHER -> "other"

\* The process is killed while sync is running: what it held in memory is
\* gone, the working tree and the repository stay as they are.
Crash ==
    /\ pc \notin { "idle", "done", "failed", "crashed" }
    /\ pc' = "crashed"
    /\ exitCode' = "killed"
    /\ error' = "none"
    /\ crash' = [at |-> Phase(pc), written |-> written]
    /\ changesDetected' = FALSE
    /\ processedFolders' = << >>
    /\ contextDocuments' = << >>
    /\ baseBranch' = NoBranch
    /\ ResetLocals
    /\ statusRead' = "none"
    /\ mode' = "none"
    /\ vcLog' = << >>
    /\ called' = {}
    /\ contextPassed' = {}
    /\ existingContent' = NullContent
    /\ written' = {}
    /\ unitState' = [u \in Units |-> "pending"]
    /\ UNCHANGED << driveVars, config, repoVars, now, run, runsLeft, faults, budget,
                    startDirty, docSource >>

\* ------------------------------------------------------------------- sync
\* A filter that finds no key missing.
MissingNone(required) == {}

\* Object.keys(required).filter(key => !this.config[key])
Missing(required) == required \ config

validateConfig ==
    /\ pc = "validate"
    /\ pc' = IF Missing(RequiredKeys) = {} THEN "status" ELSE "catch"
    /\ error' = IF Missing(RequiredKeys) = {} THEN error ELSE "config"
    /\ UNCHANGED << driveVars, config, repoVars, fieldVars, localVars, exitCode, now,
                    runVars, faults, obsVars, docSource >>

\* A test that takes a single changed path for none.
HasSeveralChanges(contentChanges) == Cardinality(contentChanges) > 1

\* const hasChanges = contentChanges.length > 0
HasChanges(contentChanges) == contentChanges # {}

\* hasExistingChanges and the branch of sync that follows it.
hasExistingChanges ==
    /\ pc = "status"
    /\ \E ok \in BOOLEAN :
          /\ Outcome(ok)
          /\ statusRead' = IF ok THEN "read" ELSE "unreadable"
          /\ IF ok /\ HasChanges(ContentChanges)
             THEN /\ changesDetected' = TRUE
                  /\ processedFolders' = << Sentinel >>
                  /\ mode' = "resume"
                  /\ pc' = "branch"
             ELSE /\ mode' = "normal"
                  /\ pc' = "context"
                  /\ UNCHANGED << changesDetected, processedFolders >>
    /\ UNCHANGED << driveVars, config, repoVars, contextDocuments, baseBranch,
                    localVars, exitCode, error, now, runVars, vcLog, called, written,
                    unitState, contextPassed, existingContent, docSource >>

\* Documents and sheets that lie directly in the Drive root.
RootFiles == << Item(1, "doc", 0), Item(2, "image", 0), Item(3, "sheet", 0) >>

\* allFiles.filter(...): the Google documents and spreadsheets of the root.
ContextFiles(allFiles) == SelectSeq(allFiles, LAMBDA f : f.kind \in { "doc", "sheet" })

Range(s) == { s[i] : i \in 1..Len(s) }

\* loadContextDocuments: a failed listing gives [], a failed download omits
\* the document.
loadContextDocuments ==
    /\ pc = "context"
    /\ \E listOk \in BOOLEAN, lost \in SUBSET Range(ContextFiles(RootFiles)) :
          /\ listOk \/ lost = {}
          /\ Cardinality(lost) + (IF listOk THEN 0 ELSE 1) <= budget - faults
          /\ faults' = faults + Cardinality(lost) + (IF listOk THEN 0 ELSE 1)
          /\ contextDocuments' =
                IF listOk
                THEN SelectSeq(ContextFiles(RootFiles), LAMBDA f : f \notin lost)
                ELSE << >>
    /\ called' = called \cup { "drive" }
    /\ pc' = "list"
    /\ UNCHANGED << driveVars, config, repoVars, changesDetected, processedFolders,
                    baseBranch, localVars, exitCode, error, now, runVars, statusRead,
                    mode, vcLog, written, unitState, contextPassed, existingContent,
                    docSource >>

\* driveService.listFolders(driveFolderId) in sync.
listFolders ==
    /\ pc = "list"
    /\ \E ok \in BOOLEAN :
          /\ Outcome(ok)
          /\ IF ok
             THEN /\ folders' = driveFolders
                  /\ idx' = 1
                  /\ pc' = "loop"
                  /\ error' = error
             ELSE /\ pc' = "catch"
                  /\ error' = "list"
                  /\ UNCHANGED << folders, idx >>
    /\ called' = called \cup { "drive" }
    /\ UNCHANGED << driveVars, config, repoVars, fieldVars, localMetadata, files,
                    fetched, transformedContent, branchName, exitCode, now, runVars,
                    statusRead, mode, vcLog, written, unitState, contextPassed,
                    existingContent, docSource >>

\* The folder being processed and the paths processFolder derives from it.
Folder == folders[idx]
FolderFileSlug == sanitizeFolderName(Folder.name)

\* A processFolder without its catch: the error of a unit ends the loop.
UnitEndsRethrow(state) ==
    /\ unitState' = [unitState EXCEPT ![idx] = state]
    /\ idx' = IF state = "failed" THEN idx ELSE idx + 1
    /\ pc' = IF state = "failed" THEN "catch" ELSE "loop"
    /\ localMetadata' = Null
    /\ files' = << >>
    /\ fetched' = << >>
    /\ transformedContent' = << >>
    /\ UNCHANGED << folders, branchName >>

\* A loop that takes up a failed folder again.
UnitEndsRetry(state) ==
    /\ unitState' = [unitState EXCEPT ![idx] = state]
    /\ idx' = IF state = "failed" THEN idx ELSE idx + 1
    /\ pc' = "loop"
    /\ localMetadata' = Null
    /\ files' = << >>
    /\ fetched' = << >>
    /\ transformedContent' = << >>
    /\ UNCHANGED << folders, branchName >>

\* The catch of processFolder: the error is logged and the loop goes on.
UnitEnds(state) ==
    /\ unitState' = [unitState EXCEPT ![idx] = state]
    /\ idx' = idx + 1
    /\ pc' = "loop"
    /\ localMetadata' = Null
    /\ files' = << >>
    /\ fetched' = << >>
    /\ transformedContent' = << >>
    /\ UNCHANGED << folders, branchName >>

\* processFolder up to the decision: checkIfUpdateNeeded on the local file.
checkUpdate ==
    /\ pc = "loop"
    /\ idx <= Len(folders)
    /\ LET content == wt.docs[FolderFileSlug]
       IN  \E listOk \in BOOLEAN :
             /\ listOk \/ CheckListsDrive(content)
             /\ Outcome(listOk)
             /\ called' = called \cup
                    (IF CheckListsDrive(content) THEN { "drive" } ELSE {})
             /\ IF checkIfUpdateNeeded(content, listOk, driveFiles[Folder.id])
                THEN /\ pc' = "listFiles"
                     /\ localMetadata' =
                           IF content = NoFile THEN Null ELSE extractMetadata(content)
                     /\ UNCHANGED << folders, idx, files, fetched, transformedContent,
                                     branchName, unitState >>
                ELSE UnitEnds("skipped")
    /\ UNCHANGED << driveVars, config, repoVars, fieldVars, exitCode, error, now,
                    runVars, statusRead, mode, vcLog, written, contextPassed,
                    existingContent, docSource >>

\* A sync that submits whatever the loop did.
SubmitAlways == TRUE

\* if (this.changesDetected) after the loop
SubmitNeeded == changesDetected

\* A loop that may be left once its first folder is handled.
FirstFolderVisited == idx > 1

\* for (const folder of folders): the loop is left after the last folder.
AllFoldersVisited == idx > Len(folders)

\* The end of the loop over the folders and the test of changesDetected.
afterLoop ==
    /\ pc = "loop"
    /\ AllFoldersVisited
    /\ IF SubmitNeeded
       THEN pc' = "branch" /\ exitCode' = exitCode
       ELSE pc' = "done" /\ exitCode' = "0"
    /\ UNCHANGED << driveVars, config, repoVars, fieldVars, localVars, error, now,
                    runVars, faults, obsVars, docSource >>

\* processFolder: driveService.listFiles(folder.id).
listFiles ==
    /\ pc = "listFiles"
    /\ \E ok \in BOOLEAN :
          /\ Outcome(ok)
          /\ IF ok
             THEN /\ files' = driveFiles[Folder.id]
                  /\ pc' = "mkdir"
                  /\ UNCHANGED << folders, idx, localMetadata, fetched,
                                  transformedContent, branchName, unitState >>
             ELSE UnitEnds("failed")
    /\ called' = called \cup { "drive" }
    /\ UNCHANGED << driveVars, config, repoVars, fieldVars, exitCode, error, now,
                    runVars, statusRead, mode, vcLog, written, contextPassed,
                    existingContent, docSource >>

\* processFolder: fs.mkdir of the content and the assets directory (an empty
\* directory is no change of the working tree).
mkdirs ==
    /\ pc = "mkdir"
    /\ \E ok \in BOOLEAN :
          /\ Outcome(ok)
          /\ IF ok
             THEN /\ pc' = "files"
                  /\ UNCHANGED << localVars, unitState >>
             ELSE UnitEnds("failed")
    /\ UNCHANGED << driveVars, config, repoVars, fieldVars, exitCode, error, now,
                    runVars, statusRead, mode, vcLog, called, written, contextPassed,
                    existingContent, docSource >>

\* What the download of the listed files returns: the files as they are on
\* Drive when they are downloaded.
Downloaded(list) ==
    [i \in 1..Len(list) |->
        IF \E k \in 1..Len(driveFiles[Folder.id]) : driveFiles[Folder.id][k].id = list[i].id
        THEN CHOOSE f \in Range(driveFiles[Folder.id]) : f.id = list[i].id
        ELSE list[i]]

\* processFiles: every file is fetched by kind; a file whose download or
\* write fails is logged and left out; images are written to the assets
\* directory of the folder.
processFiles ==
    /\ pc = "files"
    /\ \E lost \in SUBSET { i \in 1..Len(files) : files[i].kind # "other" } :
          /\ Cardinality(lost) <= budget - faults
          /\ faults' = faults + Cardinality(lost)
          /\ fetched' = Downloaded(SelectSeq(files, LAMBDA f :
                            f.kind # "other" /\ \A i \in lost : files[i] # f))
          /\ LET images == { AssetPath(FolderFileSlug, files[i].id) :
                               i \in { j \in 1..Len(files) :
                                         files[j].kind = "image" /\ j \notin lost } }
             IN  /\ wt' = [wt EXCEPT !.assets = @ \cup images]
                 /\ written' = written \cup images
    /\ called' = called \cup
          (IF \E i \in 1..Len(files) : files[i].kind # "other" THEN { "drive" } ELSE {})
    /\ pc' = "transform"
    /\ UNCHANGED << driveVars, config, head, branch, remoteBranches, commits, mrs,
                    fieldVars, folders, idx, localMetadata, files, transformedContent,
                    branchName, exitCode, error, now, runVars, statusRead, mode, vcLog,
                    unitState, contextPassed, existingContent, docSource >>

\* processFolder: contentProcessor.transformToMarkdown (the call takes time).
\* A call that passes no context documents.
ContextArgumentNone == << >>

\* The fourth argument of contentProcessor.transformToMarkdown.
ContextArgument == contextDocuments

transformToMarkdown ==
    /\ pc = "transform"
    /\ now' = now + 1
    /\ contextPassed' = contextPassed \cup { ContextArgument }
    /\ existingContent' = PriorDocument(wt.docs[FolderFileSlug])
    /\ \E ok \in BOOLEAN :
          /\ Outcome(ok)
          /\ IF ok
             THEN /\ transformedContent' = << Text(0) >>
                  /\ pc' = "write"
                  /\ UNCHANGED << folders, idx, localMetadata, files, fetched, branchName,
                                  unitState >>
             ELSE UnitEnds("failed")
    /\ called' = called \cup { "ai" }
    /\ UNCHANGED << driveVars, config, repoVars, fieldVars, exitCode, error, runVars,
                    statusRead, mode, vcLog, written, docSource >>

\* A stamp that repeats the watermark of the committed documents.
PreviousStamp == InitNow - 1

\* new Date() in the call of createMetadataComment
SyncTime == now

\* A run that records no folder.
RecordNothing(list, name) == list

\* A run that records a folder twice.
RecordTwice(list, name) == list \o << name, name >>

\* this.processedFolders.push(folder.name)
RecordFolder(list, name) == Append(list, name)

\* processFolder: the metadata comment is appended and the file is written;
\* then the folder is recorded.
writeDocument ==
    /\ pc = "write"
    /\ \E ok \in BOOLEAN :
          /\ Outcome(ok)
          /\ IF ok
             THEN /\ wt' = [wt EXCEPT !.docs[FolderFileSlug] =
                              transformedContent \o << WS >>
                                  \o createMetadataComment(files, SyncTime)]
                  /\ written' = written \cup { DocPath(FolderFileSlug) }
                  /\ docSource' =
                         IF runsLeft = 0 THEN docSource
                         ELSE [docSource EXCEPT ![FolderFileSlug] =
                                  [known |-> TRUE, listed |-> files,
                                   fetched |-> fetched, stamp |-> SyncTime]]
                  /\ changesDetected' = TRUE
                  /\ processedFolders' = RecordFolder(processedFolders, Folder.name)
                  /\ UnitEnds("done")
             ELSE /\ UnitEnds("failed")
                  /\ UNCHANGED << wt, written, changesDetected, processedFolders,
                                  docSource >>
    /\ UNCHANGED << driveVars, config, head, branch, remoteBranches, commits, mrs,
                    contextDocuments, baseBranch, exitCode, error, now, runVars,
                    statusRead, mode, vcLog, called, contextPassed, existingContent >>

\* ------------------------------------------- createAndSubmitMergeRequest
\* The statements in another order: the push before the commit.
NextStepPushFirst(step) ==
    CASE step = "branch" -> "push"
      [] step = "push" -> "commit"
      [] step = "commit" -> "mr"
      [] OTHER -> "return"

\* A submission that starts over after the merge request.
NextStepAgain(step) ==
    CASE step = "branch" -> "commit"
      [] step = "commit" -> "push"
      [] step = "push" -> "mr"
      [] OTHER -> "branch"

\* The statements of createAndSubmitMergeRequest in their order: the step
\* that follows a step that succeeded.
NextStep(step) ==
    CASE step = "branch" -> "commit"
      [] step = "commit" -> "push"
      [] step = "push" -> "mr"
      [] OTHER -> "return"

\* A createBranch that returns the branch it has created.
CreatedBranch == SyncBranch(now + 1)

\* const currentBranch = await this.getCurrentBranch(), returned at the end.
CurrentBranch == branch

\* The branch name is taken from the clock, then gitService.createBranch:
\* current branch, pull of it from the remote, checkout of the new branch.
createBranch ==
    /\ pc = "branch"
    /\ now' = now + 1
    /\ branchName' = SyncBranch(now')
    /\ \E o \in { "ok", "pull", "checkout" } :
          /\ o = "pull" \/ branch \in remoteBranches
          /\ (o = "ok" \/ (o = "pull" /\ branch \notin remoteBranches)) \/ CanFail
          /\ faults' = IF o = "ok" \/ (o = "pull" /\ branch \notin remoteBranches)
                        THEN faults ELSE faults + 1
          /\ CASE o = "ok" ->
                    /\ head' = (branchName' :> head[branch]) @@ head
                    /\ branch' = branchName'
                    /\ baseBranch' = CurrentBranch
                    /\ vcLog' = vcLog \o << "pull", "branch" >>
                    /\ pc' = NextStep("branch")
                    /\ error' = error
               [] o = "checkout" ->
                    /\ vcLog' = Append(vcLog, "pull")
                    /\ pc' = "catch"
                    /\ error' = "branch"
                    /\ UNCHANGED << head, branch, baseBranch >>
               [] OTHER ->
                    /\ pc' = "catch"
                    /\ error' = "branch"
                    /\ UNCHANGED << head, branch, baseBranch, vcLog >>
    /\ UNCHANGED << driveVars, config, wt, remoteBranches, commits, mrs,
                    changesDetected, processedFolders, contextDocuments, folders, idx,
                    localMetadata, files, fetched, transformedContent, exitCode,
                    runVars, statusRead, mode, called, written, unitState,
                    contextPassed, existingContent, docSource >>

\* gitService.commitChanges and the test of its result: with nothing staged it
\* returns false, and the call of gitService.returnToMain, a method GitService
\* does not have, throws a TypeError.
commitChanges ==
    /\ pc = "commit"
    /\ \E o \in { "ok", "add", "commit" } :
          /\ o = "ok" \/ CanFail
          /\ o = "commit" => Staged # {}
          /\ faults' = IF o = "ok" THEN faults ELSE faults + 1
          /\ CASE o = "add" ->
                    /\ pc' = "catch"
                    /\ error' = "commit"
                    /\ UNCHANGED << wt, head, commits, vcLog >>
               [] o = "commit" ->
                    /\ vcLog' = Append(vcLog, "add")
                    /\ pc' = "catch"
                    /\ error' = "commit"
                    /\ UNCHANGED << wt, head, commits >>
               [] OTHER ->
                    IF Staged = {}
                    THEN /\ vcLog' = Append(vcLog, "add")
                         /\ wt' = [wt EXCEPT !.extra = {}]
                         /\ pc' = "catch"
                         /\ error' = "TypeError"
                         /\ UNCHANGED << head, commits >>
                    ELSE /\ head' = [head EXCEPT ![branch] =
                                        [docs |-> wt.docs, assets |-> wt.assets]]
                         /\ wt' = [wt EXCEPT !.extra = {}]
                         /\ commits' = Append(commits,
                                [branch |-> branch, files |-> Staged,
                                 folders |-> processedFolders, run |-> run])
                         /\ vcLog' = vcLog \o << "add", "commit" >>
                         /\ pc' = NextStep("commit")
                         /\ error' = error
    /\ UNCHANGED << driveVars, config, branch, remoteBranches, mrs, fieldVars,
                    localVars, exitCode, now, runVars, statusRead, mode, called,
                    written, unitState, contextPassed, existingContent, docSource >>

\* gitService.pushBranch(branchName).
pushBranch ==
    /\ pc = "push"
    /\ \E ok \in BOOLEAN :
          /\ Outcome(ok)
          /\ IF ok
             THEN /\ remoteBranches' = remoteBranches \cup { branchName }
                  /\ vcLog' = Append(vcLog, "push")
                  /\ pc' = NextStep("push")
                  /\ error' = error
             ELSE /\ pc' = "catch"
                  /\ error' = "push"
                  /\ UNCHANGED << remoteBranches, vcLog >>
    /\ UNCHANGED << driveVars, config, wt, head, branch, commits, mrs, fieldVars,
                    localVars, exitCode, now, runVars, statusRead, mode, called,
                    written, unitState, contextPassed, existingContent, docSource >>

\* A merge request that always targets the main branch.
MergeTargetMain == MainBranch

\* The target passed to createMergeRequest: this.baseBranch.
MergeTarget == baseBranch

\* gitProviderService.createMergeRequest(branchName, baseBranch, ...).
createMergeRequest ==
    /\ pc = "mr"
    /\ \E ok \in BOOLEAN :
          /\ Outcome(ok)
          /\ IF ok
             THEN /\ mrs' = mrs \cup { [source |-> branchName, target |-> MergeTarget,
                                         draft |-> TRUE, folders |-> processedFolders,
                                         run |-> run] }
                  /\ vcLog' = Append(vcLog, "mr")
                  /\ pc' = NextStep("mr")
                  /\ error' = error
             ELSE /\ pc' = "catch"
                  /\ error' = "mr"
                  /\ UNCHANGED << mrs, vcLog >>
    /\ UNCHANGED << driveVars, config, wt, head, branch, remoteBranches, commits,
                    fieldVars, localVars, exitCode, now, runVars, statusRead, mode,
                    called, written, unitState, contextPassed, existingContent,
                    docSource >>

\* The return to the base branch after the merge request, inside the try of
\* createAndSubmitMergeRequest; sync then ends and main exits with status 0.
returnAfterMergeRequest ==
    /\ pc = "return"
    /\ \E ok \in BOOLEAN :
          /\ Outcome(ok)
          /\ returnToBranch(baseBranch, ok)
          /\ IF ReturnThrows(baseBranch, ok)
             THEN /\ pc' = "catch"
                  /\ error' = "checkout"
                  /\ exitCode' = exitCode
             ELSE /\ pc' = "done"
                  /\ error' = error
                  /\ exitCode' = "0"
    /\ UNCHANGED << driveVars, config, head, remoteBranches, commits, mrs, fieldVars,
                    localVars, now, runVars, statusRead, mode, called, written,
                    unitState, contextPassed, existingContent, docSource >>

\* A catch that never goes back to the base branch.
ShouldReturnNever == FALSE

\* if (this.baseBranch) in the catch of sync.
ShouldReturn == baseBranch # NoBranch

\* The catch of sync: back to the base branch if one is set, inside a try of
\* its own whose catch ignores any error; then the error caught is thrown
\* again and main exits with status 1.
syncCatch ==
    /\ pc = "catch"
    /\ IF ShouldReturn
       THEN \E ok \in BOOLEAN :
              /\ Outcome(ok)
              /\ returnToBranch(baseBranch, ok)
       ELSE UNCHANGED << branch, wt, vcLog, faults >>
    /\ pc' = "failed"
    /\ exitCode' = "1"
    /\ UNCHANGED << driveVars, config, head, remoteBranches, commits, mrs, fieldVars,
                    localVars, error, now, runVars, statusRead, mode, called, written,
                    unitState, contextPassed, existingContent, docSource >>

Next ==
    \/ StartRun
    \/ Crash
    \/ validateConfig
    \/ hasExistingChanges
    \/ loadContextDocuments
    \/ listFolders
    \/ checkUpdate
    \/ afterLoop
    \/ listFiles
    \/ mkdirs
    \/ processFiles
    \/ transformToMarkdown
    \/ writeDocument
    \/ createBranch
    \/ commitChanges
    \/ pushBranch
    \/ createMergeRequest
    \/ returnAfterMergeRequest
    \/ syncCatch

Spec == Init /\ [][Next]_vars

SpecRuns == InitRuns /\ [][Next]_vars

SpecUnits == InitUnits /\ [][Next]_vars

SpecSlugs == InitSlugs /\ [][Next]_vars

SpecPair == InitPair /\ [][Next]_vars

SpecTwice == InitTwice /\ [][Next]_vars

\* Every awaited call returns: a run that can take a step takes one.
SpecPairFair == InitPair /\ [][Next]_vars /\ WF_vars(Next)

TypeOK ==
    /\ pc \in { "idle", "validate", "status", "context", "list", "loop", "listFiles",
                 "mkdir", "files", "transform", "write", "branch", "commit", "push",
                 "mr", "return", "catch", "done", "failed", "crashed", "stamped",
                 "read" }
    /\ faults \in 0..budget
    /\ error \in { "none", "config", "list", "branch", "commit", "TypeError", "push",
                    "mr", "checkout" }

\* ----------------------------------------------------------- observations
\* The operations of createAndSubmitMergeRequest among the logged ones.
VcSteps == << "branch", "commit", "push", "mr" >>
StepsDone == SelectSeq(vcLog, LAMBDA e : e \in { "branch", "commit", "push", "mr" })
IsPrefix(s, t) == Len(s) <= Len(t) /\ s = SubSeq(t, 1, Len(s))
Count(e) == Cardinality({ i \in 1..Len(vcLog) : vcLog[i] = e })

\* The loop over the folders has ended.
LoopOver == folders # << >> /\ idx > Len(folders)

\* The repository is as it was before the run.
RepoUntouched ==
    /\ branch = MainBranch
    /\ DOMAIN head = { MainBranch }
    /\ remoteBranches = { MainBranch }
    /\ commits = << >>
    /\ mrs = {}

UnitSlug(u) == sanitizeFolderName(driveFolders[u].name)

\* Display names of the units whose document was written, in listing order.
DoneNames ==
    LET done == SelectSeq(driveFolders, LAMBDA f : unitState[f.id] = "done")
    IN  [i \in 1..Len(done) |-> done[i].name]

\* The document of unit u carries a watermark with a valid timestamp that is
\* not older than any item of the unit.
WatermarkCurrent(u) ==
    LET content == wt.docs[UnitSlug(u)]
        m == extractMetadata(content)
    IN  /\ content # NoFile
        /\ ~m.null
        /\ m.lastSync # InvalidDate
        /\ \A i \in 1..Len(driveFiles[u]) : driveFiles[u][i].mtime <= m.lastSync

\* ------------------------------------------------ the metadata comment alone
\* File lists of up to MaxManifest files, and transformed contents: plain
\* text, and text that holds an HTML comment of its own.
Manifests ==
    UNION { [1..n -> { Item(i, "doc", 0) : i \in 1..2 }] : n \in 0..MaxManifest }
Bodies == { << Text(0) >>, << Text(0), WS, OPEN, WS, Text(1), WS, CLOSE >> }

\* processFolder from the metadata comment to the written file, for a file
\* list, a transformed content and a time of the clock.
stampFrom(lists) ==
    /\ pc \in { "idle", "read" }
    /\ \E list \in lists, body \in Bodies, t \in 0..MaxTime :
          /\ files' = list
          /\ transformedContent' = body
          /\ now' = t
          /\ wt' = [wt EXCEPT !.docs[UnitSlug(1)] =
                       body \o << WS >> \o createMetadataComment(list, t)]
    /\ localMetadata' = Null
    /\ pc' = "stamped"

stampDocument ==
    /\ stampFrom(Manifests)
    /\ UNCHANGED << driveVars, config, head, branch, remoteBranches, commits, mrs,
                    fieldVars, folders, idx, fetched, branchName, exitCode, error,
                    runVars, faults, obsVars, docSource >>

\* File lists in which a file may be the one with "-->" in its name.
NamedManifests ==
    UNION { [1..n -> { Item(i, "doc", 0) : i \in { 1, 2, ArrowId } }] :
              n \in 0..MaxManifest }

stampNamed ==
    /\ stampFrom(NamedManifests)
    /\ UNCHANGED << driveVars, config, head, branch, remoteBranches, commits, mrs,
                    fieldVars, folders, idx, fetched, branchName, exitCode, error,
                    runVars, faults, obsVars, docSource >>

\* processFolder of a later run up to the transformer: the file is read and
\* its metadata are taken out.
readExisting ==
    /\ pc = "stamped"
    /\ existingContent' = PriorDocument(wt.docs[UnitSlug(1)])
    /\ pc' = "read"
    /\ UNCHANGED << driveVars, config, repoVars, fieldVars, localVars, exitCode, error,
                    now, runVars, faults, statusRead, mode, vcLog, called, written,
                    unitState, contextPassed, docSource >>

\* checkIfUpdateNeeded up to the watermark: the file is read and decoded.
readWatermark ==
    /\ pc = "stamped"
    /\ localMetadata' = extractMetadata(wt.docs[UnitSlug(1)])
    /\ pc' = "read"
    /\ UNCHANGED << driveVars, config, repoVars, fieldVars, folders, idx, files,
                    fetched, transformedContent, branchName, exitCode, error, now,
                    runVars, faults, obsVars, docSource >>

InitCodec == InitWith(MaxUnits, { NoFile }, { 0 }, { {} }, { RequiredKeys }, 0, 0)

NextCodec ==
    \/ stampDocument
    \/ readWatermark

SpecCodec == InitCodec /\ [][NextCodec]_vars

NextStrip ==
    \/ stampNamed
    \/ readExisting

SpecStrip == InitCodec /\ [][NextStrip]_vars

\* ------------------------------------------------ the function-based script
\* needsUpdate(driveModifiedTime, localMetadata): localMetadata is the record
\* the script keeps in its own comment, here the record of the same sync.
needsUpdate(driveModifiedTime, meta) ==
    IF meta.null \/ meta.lastSync = InvalidDate THEN TRUE
    ELSE driveModifiedTime > meta.lastSync

\* processFolder of the script up to its test of needsUpdate: an empty folder
\* is skipped first, then a folder whose document is up to date.
FunctionUpdates(content, list) ==
    /\ list # << >>
    /\ content = NoFile \/ needsUpdate(LatestModifiedTime(list), extractMetadata(content))

\* if (!textContent.trim()): only documents and spreadsheets give text.
HasText(list) == \E i \in 1..Len(list) : list[i].kind \in { "doc", "sheet" }

\* processFolder of the script returns true: it has saved the document.
FunctionWrites(content, list) == FunctionUpdates(content, list) /\ HasText(list)

\* One run over one folder, with or without a document, for every listing.
InitVariants ==
    InitNamed(<< FolderNames[1] >>, { NoFile, PlainDoc, ValidDoc }, 0..3, { {} },
              { RequiredKeys }, 1, VariantFaults)

SpecVariants == InitVariants /\ [][Next]_vars

\* ------------------------------------------------- Drive between the runs
\* Editors change the folders on Drive and the merge request of a run is
\* merged while the script is not running; every change of a file is a
\* moment of its own on the clock.
AddedItem(u, t) == Item(10 * u + 9, "doc", t)
Without(list, i) == SubSeq(list, 1, i - 1) \o SubSeq(list, i + 1, Len(list))

\* A file is added to a folder.
addItem(u) ==
    /\ AddedItem(u, 0).id \notin { driveFiles[u][i].id : i \in 1..Len(driveFiles[u]) }
    /\ now' = now + 1
    /\ driveFiles' = [driveFiles EXCEPT ![u] = Append(@, AddedItem(u, now'))]

\* A file of the first listing is edited.
modifyItem(u) ==
    \E i \in 1..Len(driveFiles[u]) :
        /\ driveFiles[u][i].mtime <= InitNow
        /\ now' = now + 1
        /\ driveFiles' = [driveFiles EXCEPT ![u][i].mtime = now']

\* A file of the first listing is removed from its folder.
removeItem(u) ==
    \E i \in 1..Len(driveFiles[u]) :
        /\ driveFiles[u][i].id # AddedItem(u, 0).id
        /\ now' = now
        /\ driveFiles' = [driveFiles EXCEPT ![u] = Without(@, i)]

remoteChange ==
    /\ pc \in { "done", "failed", "crashed" }
    /\ runsLeft > 0
    /\ \E u \in Units : addItem(u) \/ modifyItem(u) \/ removeItem(u)
    /\ UNCHANGED << driveFolders, config, repoVars, fieldVars, pc, localVars, exitCode,
                    error, runVars, faults, obsVars, docSource >>

\* A file is edited while the script is running or between two runs.
remoteModify ==
    /\ pc # "idle"
    /\ pc \in { "done", "failed", "crashed" } => runsLeft > 0
    /\ \E u \in Units : modifyItem(u)
    /\ UNCHANGED << driveFolders, config, repoVars, fieldVars, pc, localVars, exitCode,
                    error, runVars, faults, obsVars, docSource >>

\* The merge request of a run is merged into main and the working directory,
\* clean and on main, is brought up to date.
mergeRequestMerged ==
    /\ pc \in { "done", "failed", "crashed" }
    /\ runsLeft > 0
    /\ branch = MainBranch
    /\ Changes = {}
    /\ \E m \in mrs :
          /\ m.target = MainBranch
          /\ m.source \in remoteBranches
          /\ head[m.source] # head[MainBranch]
          /\ head' = [head EXCEPT ![MainBranch] = head[m.source]]
          /\ wt' = [docs |-> head[m.source].docs, assets |-> head[m.source].assets,
                    extra |-> wt.extra]
    /\ UNCHANGED << driveVars, config, branch, remoteBranches, commits, mrs, fieldVars,
                    pc, localVars, exitCode, error, now, runVars, faults, obsVars,
                    docSource >>

\* Runs over one folder without a document, with changes on Drive and merges
\* between them, and with edits on Drive at any time.
InitDrive ==
    InitNamed(<< FolderNames[1] >>, { NoFile }, { 2 }, { {} }, { RequiredKeys },
              MaxRuns, DriveFaults)

NextDrift == Next \/ remoteChange \/ mergeRequestMerged

SpecDrift == InitDrive /\ [][NextDrift]_vars

NextRace == Next \/ remoteModify \/ mergeRequestMerged

SpecRace == InitDrive /\ [][NextRace]_vars

\* --------------------------------------------------------------- claims
\* C1: in every run the version-control steps occur in the order createBranch,
\* commitChanges, pushBranch, createMergeRequest: the steps done so far are
\* always a prefix of that order, so no commit is made before the branch was
\* created, no push before a commit that reported changes, and no merge
\* request before a successful push; and a step is only started after the
\* one before it was done.
C1_StepOrder ==
    /\ IsPrefix(StepsDone, VcSteps)
    /\ pc = "commit" => StepsDone = << "branch" >>
    /\ pc = "push" => StepsDone = << "branch", "commit" >>
    /\ pc = "mr" => StepsDone = << "branch", "commit", "push" >>

C1_Witness == pc = "done" /\ StepsDone = VcSteps /\ mode = "normal"

\* C2: a normal-mode run whose loop ended with no document written does no
\* version-control or forge operation (no pull, branch, add, commit, push,
\* merge request or checkout), leaves the repository as it was, and ends
\* with exit status 0.
C2_NoChangeNoSubmit ==
    (mode = "normal" /\ LoopOver /\ processedFolders = << >>) =>
        /\ vcLog = << >>
        /\ RepoUntouched
        /\ pc \in { "loop", "done" }
        /\ pc = "done" => exitCode = "0"

C2_Witness ==
    /\ mode = "normal" /\ LoopOver /\ processedFolders = << >>
    /\ pc = "done" /\ exitCode = "0"
    /\ "drive" \in called

\* C3: a single run creates at most one branch, makes at most one commit,
\* pushes at most once and opens at most one merge request; a run that wrote
\* N >= 1 documents and ended with status 0 did each exactly once, and its
\* one commit holds the documents of all the units written.
C3_OneOfEach ==
    /\ \A e \in { "branch", "commit", "push", "mr" } : Count(e) <= 1
    /\ Len(commits) <= 1
    /\ Cardinality(mrs) <= 1
    /\ Cardinality(DOMAIN head) <= 2
    /\ (pc = "done" /\ mode = "normal" /\ Len(processedFolders) >= 1) =>
          /\ \A e \in { "branch", "commit", "push", "mr" } : Count(e) = 1
          /\ Len(commits) = 1
          /\ Cardinality(mrs) = 1
          /\ \A u \in Units : unitState[u] = "done" =>
                DocPath(UnitSlug(u)) \in commits[1].files

C3_Witness ==
    /\ pc = "done" /\ mode = "normal" /\ Len(processedFolders) = MaxUnits
    /\ Len(commits) = 1 /\ Cardinality(mrs) = 1 /\ Count("branch") = 1

\* C4: when the processing of a unit raises, the units before and after it
\* are still processed: the loop always reaches every unit, the ChangeSet
\* holds exactly the units whose document was written, a unit is skipped
\* only when it needed no regeneration, a run whose folders were listed fails
\* only in the version-control steps after the loop, and a run whose loop and
\* version-control steps completed exits with status 0.
C4_Isolation ==
    /\ \A u \in Units : (folders # << >> /\ u < idx) =>
          unitState[u] \in { "skipped", "done", "failed" }
    /\ mode = "normal" => processedFolders = DoneNames
    /\ \A u \in Units : unitState[u] = "skipped" =>
          ~checkIfUpdateNeeded(wt.docs[UnitSlug(u)], TRUE, driveFiles[u])
    /\ (pc \in { "catch", "failed" } /\ folders # << >>) =>
          (LoopOver /\ changesDetected)
    /\ pc = "done" => exitCode = "0"

C4_Witness ==
    /\ pc = "done" /\ exitCode = "0"
    /\ unitState = << "done", "failed", "done" >>
    /\ processedFolders = << FolderNames[1], FolderNames[3] >>
    /\ Cardinality(mrs) = 1

Interrupted ==
    /\ crash.at \in { "units", "branch", "commit", "push" }
    /\ \E p \in crash.written : p.kind = "md"

Published(p) ==
    \E m \in mrs :
        /\ m.source \in remoteBranches
        /\ head[m.source].docs[p.slug] # head[MainBranch].docs[p.slug]

C6_AsStated ==
    (Interrupted /\ faults = 0 /\ pc \in { "done", "failed" }) =>
        /\ pc = "done"
        /\ called = {}
        /\ \A p \in crash.written : p.kind = "md" => Published(p)

\* C7 as stated: with the content source unchanged, the second of two runs
\* in succession in one working directory, neither of them killed and no
\* external call failing, writes no file, creates no branch and opens no
\* merge request.
C7_AsStated ==
    (run = 2 /\ crash.at = "none" /\ faults = 0) =>
        /\ written = {}
        /\ Count("branch") = 0
        /\ \A m \in mrs : m.run # 2

\* A step of processFolder that evaluates checkIfUpdateNeeded for unit u.
ChecksUnit(u) ==
    /\ pc = "loop"
    /\ idx = u
    /\ u <= Len(folders)
    /\ pc' # "crashed"

C9_AsStated ==
    \A u \in Units : unitState[u] = "skipped" =>
        LET m == extractMetadata(wt.docs[UnitSlug(u)])
        IN  ~m.null /\ m.lastSync # InvalidDate

\* C10 as stated: extractMetadata returns null for a document without a
\* watermark block and for one whose block cannot be parsed, a last_sync
\* value that is no timestamp included: the watermark it returned to
\* checkIfUpdateNeeded is null or has a valid timestamp.
C10_AsStated ==
    ~localMetadata.null => localMetadata.lastSync # InvalidDate

\* C11 as stated: for every file list of size 0, 1 or N and every sync time
\* t, decoding a document that ends with createMetadataComment(list, t)
\* yields a watermark whose timestamp is t and whose manifest is the one the
\* comment was built from.
C11_AsStated ==
    pc = "read" =>
        /\ ~localMetadata.null
        /\ localMetadata.lastSync = now
        /\ localMetadata.sourceFiles = FileList(files)

\* The document of unit u as the run left it: in the commit of the run, or
\* in the working tree while nothing is committed.
WrittenDoc(u) ==
    IF commits # << >>
    THEN head[commits[1].branch].docs[UnitSlug(u)]
    ELSE wt.docs[UnitSlug(u)]

\* C12: every document written by a unit that reached Done carries a
\* decodable watermark whose lastSync is a time of the clock during this run
\* (after its start, not after the present), the watermark lists the files of
\* the unit as they were listed, and lastSync is greater than or equal to the
\* modification time of every one of them.
C12_StampCoversItems ==
    \A u \in Units : unitState[u] = "done" =>
        \A m \in { extractMetadata(WrittenDoc(u)) } :
            /\ ~m.null
            /\ m.lastSync # InvalidDate
            /\ m.lastSync > InitNow
            /\ m.lastSync <= now
            /\ driveFiles[u] # << >> => m.sourceFiles = FileList(driveFiles[u])
            /\ \A i \in 1..Len(driveFiles[u]) : driveFiles[u][i].mtime <= m.lastSync

C12_Witness ==
    /\ pc = "done" /\ commits # << >> /\ branch = MainBranch
    /\ \E u \in Units :
          /\ unitState[u] = "done"
          /\ Len(driveFiles[u]) = 2
          /\ extractMetadata(WrittenDoc(u)).lastSync > InitNow

\* A file of the unit in progress whose download or write failed in
\* processFiles.
ItemLost ==
    \E i \in 1..Len(files) :
        /\ files[i].kind # "other"
        /\ \A j \in 1..Len(fetched) : fetched[j] # files[i]

\* C13 as stated: when a listing, a transformer call or a filesystem call of
\* a unit fails, the unit ends as failed with its document and the ChangeSet
\* as they were and the loop goes on with the next unit; and a unit one of
\* whose items could not be fetched leaves its document and the ChangeSet as
\* they were, too.
C13_AsStated ==
    [][/\ (pc \in { "listFiles", "mkdir", "transform", "write" } /\ faults' > faults) =>
             /\ unitState'[idx] = "failed"
             /\ wt'.docs = wt.docs
             /\ processedFolders' = processedFolders
             /\ pc' = "loop" /\ idx' = idx + 1
       /\ (pc = "write" /\ pc' # "crashed" /\ ItemLost) =>
             /\ wt'.docs = wt.docs
             /\ processedFolders' = processedFolders]_vars

\* C14: if a required configuration value is missing, the run fails before
\* any work: it calls neither the content source nor the transformer, reads
\* no repository status, writes no file, does no version-control operation,
\* leaves working tree and repository as they were, and exits with status 1.
C14_ConfigPreflight ==
    (~(RequiredKeys \subseteq config) /\ run >= 1) =>
        /\ called = {} /\ written = {}
        /\ statusRead = "none" /\ mode = "none"
        /\ vcLog = << >>
        /\ RepoUntouched
        /\ wt.docs = head[MainBranch].docs /\ wt.assets = {}
        /\ ~changesDetected /\ processedFolders = << >>
        /\ pc \in { "validate", "catch", "failed", "crashed" }
        /\ pc = "failed" => exitCode = "1"

C14_Witness ==
    /\ ~(RequiredKeys \subseteq config)
    /\ pc = "failed" /\ exitCode = "1"
    /\ StrayPath \in wt.extra

\* C15 as stated: when commitChanges finds nothing staged (and no external
\* call fails), no commit is made, nothing is pushed, no merge request is
\* opened, the base branch is checked out again, and the run ends with exit
\* status 0.
NothingStaged ==
    /\ faults = 0
    /\ \E i \in 1..Len(vcLog) : vcLog[i] = "add"
    /\ \A i \in 1..Len(vcLog) : vcLog[i] # "commit"

C15_AsStated ==
    (NothingStaged /\ pc \in { "done", "failed" }) =>
        /\ commits = << >> /\ mrs = {} /\ remoteBranches = { MainBranch }
        /\ branch = MainBranch
        /\ pc = "done" /\ exitCode = "0"

\* The creation of the merge request has failed: the branch was pushed and the
\* error of createMergeRequest is the one sync has caught.
MrFailed == pc \in { "catch", "failed" } /\ error = "mr"

FatalEnd == pc = "failed" /\ error \in { "config", "list", "branch", "commit", "push" }

\* The checkout back to the base branch was tried and did not succeed.
ReturnFailed ==
    /\ baseBranch # NoBranch
    /\ branch = branchName
    /\ "checkout" \notin { vcLog[i] : i \in 1..Len(vcLog) }

\* C17 as stated: after a failure of the configuration validation, the root
\* listing, the branch creation, the commit or the push, the run exits with
\* status 1 and the repository is on the branch it started on.
C17_AsStated == FatalEnd => exitCode = "1" /\ branch = MainBranch

\* C17: after such a failure the run exits with status 1 with the error first
\* caught; the repository is on the branch it started on unless the checkout
\* back to the base branch has itself failed, which takes a second failure
\* and leaves the sync branch checked out.
C17_FatalReturn ==
    FatalEnd =>
        /\ exitCode = "1"
        /\ branch = MainBranch \/ (ReturnFailed /\ faults >= 2)
        /\ error \in { "config", "list", "branch" } => baseBranch = NoBranch /\ branch = MainBranch
        /\ error \in { "commit", "push" } => baseBranch = MainBranch

C17_Witness ==
    /\ FatalEnd
    /\ error = "push"
    /\ exitCode = "1"
    /\ branch = MainBranch
    /\ Len(commits) = 1
    /\ "checkout" \in { vcLog[i] : i \in 1..Len(vcLog) }

\* C18: returnToBranch never throws.  A step that returns to the base branch,
\* whether the checkout succeeds or fails, leaves the caught error as it is:
\* after the merge request the run goes on to end with exit status 0, and in
\* the catch of sync the run ends with exit status 1 and the error first
\* caught.
C18_ReturnNeverThrows ==
    [][(pc \in { "return", "catch" } /\ pc' # "crashed") =>
          /\ error' = error
          /\ error' # "checkout"
          /\ pc = "return" => pc' = "done" /\ exitCode' = "0" /\ error' = "none"
          /\ pc = "catch" => pc' = "failed" /\ exitCode' = "1" /\ error' # "none"]_vars

C18_Witness ==
    /\ pc = "failed"
    /\ error = "mr"
    /\ ReturnFailed
    /\ faults = 2
    /\ exitCode = "1"

\* The positions of sync inside processFolder.
UnitPhases == { "loop", "listFiles", "mkdir", "files", "transform", "write" }

\* s is t with some of its elements left out.
IsSubSeq(s, t) ==
    \E keep \in SUBSET (1..Len(t)) : s = SelectSeq(t, LAMBDA f : \E i \in keep : t[i] = f)

\* C19: in normal mode the context documents are loaded in one step, before
\* any unit is processed; whatever fails in that step, the run goes on to list
\* the folders with no error caught, holding the documents and spreadsheets
\* of the root that could be loaded (none if the listing failed); while the
\* units are processed the list stays as loaded, and every call of the
\* transformer is passed that list.
C19_ContextOnce ==
    [][pc' # "crashed" =>
          /\ pc = "context" =>
                /\ mode = "normal"
                /\ pc' = "list"
                /\ error' = "none"
                /\ IsSubSeq(contextDocuments', ContextFiles(RootFiles))
                /\ \A u \in Units : unitState[u] = "pending"
                /\ contextPassed = {}
          /\ pc \in UnitPhases \cup { "list" } => contextDocuments' = contextDocuments
          /\ pc = "transform" => contextPassed' = { contextDocuments }]_vars

C19_Witness ==
    /\ pc = "done"
    /\ \A u \in Units : unitState[u] = "done"
    /\ Len(driveFolders) >= 2
    /\ contextDocuments = << Item(3, "sheet", 0) >>
    /\ contextPassed = { contextDocuments }

\* The document and the assets of the folder listed as unit u.
UnitDoc(tree, u) == tree.docs[UnitSlug(u)]
UnitAssets(tree, u) == { p \in tree.assets : p.slug = UnitSlug(u) }

\* C20 as stated: a step of processFolder on one unit leaves the document and
\* the assets of every other unit of the listing as they are.
C20_AsStated ==
    [][(pc \in UnitPhases /\ pc' # "crashed") =>
          \A v \in Units \ { idx } :
              /\ UnitDoc(wt', v) = UnitDoc(wt, v)
              /\ UnitAssets(wt', v) = UnitAssets(wt, v)]_vars

\* The folders of the listing that are up to date (a committed document with
\* a watermark no file of the folder is newer than) and those that have no
\* document.
UpToDate(u) ==
    LET m == extractMetadata(head[MainBranch].docs[UnitSlug(u)])
    IN  /\ head[MainBranch].docs[UnitSlug(u)] # NoFile
        /\ ~m.null
        /\ m.lastSync # InvalidDate
        /\ \A i \in 1..Len(driveFiles[u]) : driveFiles[u][i].mtime <= m.lastSync
Undocumented(u) == head[MainBranch].docs[UnitSlug(u)] = NoFile

\* The names of the folders without a document, in the order of the listing.
UndocumentedNames ==
    LET sel == SelectSeq(driveFolders, LAMBDA f : Undocumented(f.id))
    IN  [i \in 1..Len(sel) |-> sel[i].name]

\* C21: a run in which no call fails, over folders that are up to date
\* (Alpha) and at least one folder without a document (Beta), ends with every
\* Alpha skipped and every Beta processed, a ChangeSet of exactly the Betas,
\* and one branch, one commit and one merge request, whose message and
\* description name exactly the Betas.
C21_AlphaBeta ==
    (/\ pc = "done"
     /\ faults = 0
     /\ \A u \in Units : UpToDate(u) \/ Undocumented(u)
     /\ \E u \in Units : Undocumented(u)) =>
        /\ \A u \in Units : unitState[u] = IF UpToDate(u) THEN "skipped" ELSE "done"
        /\ processedFolders = UndocumentedNames
        /\ exitCode = "0"
        /\ \A e \in { "branch", "commit", "push", "mr" } : Count(e) = 1
        /\ Cardinality(DOMAIN head) = 2
        /\ Len(commits) = 1
        /\ commits[1].folders = UndocumentedNames
        /\ \E mr \in mrs : mrs = { mr } /\ mr.folders = UndocumentedNames

C21_Witness ==
    /\ pc = "done"
    /\ faults = 0
    /\ UpToDate(1)
    /\ Undocumented(2)
    /\ Len(driveFiles[1]) = 2
    /\ unitState[1] = "skipped"
    /\ unitState[2] = "done"
    /\ processedFolders = << FolderNames[2] >>
    /\ Cardinality(mrs) = 1

\* A unit has reached Done, Skipped or Failed.
Terminal(u) == unitState[u] \in { "done", "skipped", "failed" }

\* C22: the units are processed one after another in the order of the
\* listing (at most the unit at the loop index is in progress, the ones
\* before it are terminal, the ones after it untouched), and once a
\* version-control operation has changed the repository (pull, branch, add,
\* commit, push, checkout) no unit is in progress or processed any more: in
\* normal mode every listed unit is terminal by then, in resume mode none
\* was ever started.
C22_UnitsThenVersionControl ==
    /\ \A u \in Units :
          /\ (folders # << >> /\ u < idx) => Terminal(u)
          /\ (folders = << >> \/ u >= idx) => unitState[u] = "pending"
    /\ pc \in (UnitPhases \ { "loop" }) => idx \in 1..Len(folders)
    /\ (vcLog # << >> \/ commits # << >> \/ Cardinality(DOMAIN head) > 1) =>
          /\ pc \notin UnitPhases
          /\ mode = "normal" => LoopOver /\ \A u \in Units : Terminal(u)
          /\ mode = "resume" => \A u \in Units : unitState[u] = "pending"
    /\ pc \in UnitPhases =>
          /\ vcLog = << >>
          /\ branch = MainBranch
          /\ head = (MainBranch :> head[MainBranch])

C22_Witness ==
    /\ mode = "normal"
    /\ pc = "push"
    /\ vcLog = << "pull", "branch", "add", "commit" >>
    /\ \A u \in Units : Terminal(u)
    /\ \E u \in Units : unitState[u] = "failed"
    /\ \E u \in Units : unitState[u] = "done"

\* The positions of sync before createBranch.
BeforeBranch ==
    { "validate", "status", "context", "list" } \cup UnitPhases

\* C23: from the start of a run up to createBranch the branch checked out
\* does not change; createBranch records it as the base branch and checks
\* out a branch that did not exist before; the merge request the run opens
\* has that new branch, which the run has committed to and pushed, as its
\* source and the base branch as its target, and is requested as a draft.
C23_MergeRequestEnds ==
    [][/\ (pc \in BeforeBranch /\ pc' # "crashed") => branch' = branch
       /\ (pc = "branch" /\ pc' = "commit") =>
             /\ baseBranch' = branch
             /\ branch' = branchName'
             /\ branchName' \notin DOMAIN head
             /\ branchName' # branch
       /\ (pc \in { "commit", "push", "mr" } /\ pc' # "crashed") =>
             /\ baseBranch' = baseBranch
             /\ branchName' = branchName
             /\ branch' = branch
       /\ (pc = "mr" /\ pc' = "return") =>
             /\ branch = branchName
             /\ branchName \in remoteBranches
             /\ \E mr \in mrs' \ mrs :
                   /\ mrs' = mrs \cup { mr }
                   /\ mr.source = branchName
                   /\ mr.target = baseBranch
                   /\ mr.draft
                   /\ mr.run = run]_vars

C23_Witness ==
    /\ pc = "done"
    /\ run = 2
    /\ baseBranch # MainBranch
    /\ \E mr \in mrs : mr.run = 2 /\ mr.target = baseBranch /\ mr.source = branchName

\* The run has ended: sync returned or threw, or the process was killed.
RunEnded == pc \in { "done", "failed", "crashed" }

\* C24: within a run the state of a unit changes only once, from pending to
\* Done, Skipped or Failed, and only for the unit at the loop index, which
\* then moves on by one and never goes back (a failed unit is not taken up
\* again); when the loop is over every listed unit is terminal; and, every
\* call returning, a run that has listed its folders gets to the end of the
\* loop and ends.
C24_UnitsTerminate ==
    /\ [][pc' \notin { "validate", "crashed" } =>
            /\ idx' >= idx
            /\ \A u \in Units :
                  /\ Terminal(u) => unitState'[u] = unitState[u]
                  /\ unitState'[u] # unitState[u] =>
                        /\ u = idx
                        /\ idx' = idx + 1
                        /\ Terminal(u)']_vars
    /\ []((mode = "normal" /\ LoopOver) => \A u \in Units : Terminal(u))
    /\ ((mode = "normal" /\ pc = "loop") ~> (LoopOver \/ RunEnded))
    /\ ((mode = "normal" /\ pc = "loop") ~> RunEnded)

C24_Witness ==
    /\ pc = "done"
    /\ mode = "normal"
    /\ unitState[1] = "failed"
    /\ unitState[2] \in { "done", "skipped" }
    /\ idx = Len(folders) + 1

\* The document checkIfUpdateNeeded reads for the unit at the loop index.
CheckedContent == wt.docs[FolderFileSlug]

\* The step of the loop that is the call of checkIfUpdateNeeded.
ChecksNow == pc = "loop" /\ idx <= Len(folders) /\ pc' # "crashed"

\* The checks in their order: a missing document, then a missing watermark,
\* make the unit regenerated, without a call of Drive.
OrderOfChecks ==
    ChecksNow =>
        /\ CheckedContent = NoFile => (pc' = "listFiles" /\ called' = called)
        /\ (CheckedContent # NoFile /\ extractMetadata(CheckedContent).null) =>
              (pc' = "listFiles" /\ called' = called)

\* C25 as stated: checkIfUpdateNeeded answers true for a missing document and
\* then for a missing watermark, in both cases without looking at the items,
\* and a unit with zero items is skipped only if its document has a valid
\* watermark.
C25_AsStated ==
    [][/\ OrderOfChecks
       /\ (ChecksNow /\ driveFiles[Folder.id] = << >> /\ pc' = "loop") =>
             /\ ~extractMetadata(CheckedContent).null
             /\ extractMetadata(CheckedContent).lastSync # InvalidDate]_vars

\* The document in the tree is the one the unit was synced into by an earlier
\* run, and what that run made it from.
SyncedEarlier ==
    /\ docSource[FolderFileSlug].known
    /\ CheckedContent # NoFile
    /\ ~extractMetadata(CheckedContent).null
    /\ extractMetadata(CheckedContent).lastSync = docSource[FolderFileSlug].stamp

\* The folder on Drive is no longer what the earlier run listed.
ChangedSince == driveFiles[Folder.id] # docSource[FolderFileSlug].listed

\* C26: for a unit synced in an earlier run, an item added, modified or
\* removed between the runs makes checkIfUpdateNeeded return true in the later
\* run, so that the unit is regenerated.
C26_AsStated ==
    [][ (ChecksNow /\ SyncedEarlier /\ ChangedSince) => pc' = "listFiles" ]_vars

\* The document ends with the comment.
EndsWith(doc, comment) ==
    /\ Len(doc) >= Len(comment)
    /\ SubSeq(doc, Len(doc) - Len(comment) + 1, Len(doc)) = comment

\* The write of the unit's document succeeds in this step.
WritesNow == pc = "write" /\ unitState'[idx] = "done"

\* C27: the manifest stamped into a regenerated document lists exactly the
\* items processed into it, the documents, spreadsheets and images whose
\* content was fetched, and no item of an unknown kind or whose fetch failed.
C27_AsStated ==
    [][ WritesNow =>
          EndsWith(wt'.docs[FolderFileSlug], createMetadataComment(fetched, SyncTime))
      ]_vars

\* C28: the prior document passed to the transformer is null when the unit
\* has no document, and otherwise the existing document with its watermark
\* block removed; for a document this engine wrote, the transformer input
\* holds no SYNC_METADATA block.
C28_AsStated ==
    pc = "read" =>
        /\ existingContent = Trim(transformedContent)
        /\ ~HasBlock(existingContent)

\* C29: the function-based script and the class ContentSynchronizer make the
\* same decision to skip or to regenerate for every unit, for the same items
\* and local document, and write a document in the same cases.
C29_AsStated ==
    [][ /\ (ChecksNow /\ faults' = faults) =>
              (pc' = "listFiles" <=> FunctionUpdates(CheckedContent, driveFiles[Folder.id]))
        /\ WritesNow => FunctionWrites(CheckedContent, files)
      ]_vars

\* An item of the unit was edited on Drive after the earlier run had
\* downloaded it.
EditedSinceFetch ==
    \E i \in 1..Len(driveFiles[Folder.id]), j \in 1..Len(docSource[FolderFileSlug].fetched) :
        /\ driveFiles[Folder.id][i].id = docSource[FolderFileSlug].fetched[j].id
        /\ driveFiles[Folder.id][i].mtime > docSource[FolderFileSlug].fetched[j].mtime

\* C30: no remote update is lost: if an item of a unit is modified at any
\* time after its content was fetched by a run, also while that run is still
\* transforming or stamping the unit, the next normal-mode run that sees the
\* document of that run regenerates the unit.
C30_AsStated ==
    [][ (/\ ChecksNow /\ driveFiles' = driveFiles /\ faults' = faults
         /\ mode = "normal" /\ SyncedEarlier /\ EditedSinceFetch) =>
            pc' = "listFiles" ]_vars

\* The documents written in this run.
WrittenDocs == written \cap { DocPath(sl) : sl \in Slugs }

\* C31: at every point of a run changesDetected is true exactly when
\* processedFolders is not empty; in normal mode processedFolders holds, in
\* listing order and each once, the display names of the units whose document
\* was written in this run, and in resume mode it holds the sentinel label
\* alone.
C31_ChangeSetTracksWrites ==
    /\ changesDetected <=> processedFolders # << >>
    /\ mode = "normal" =>
          /\ processedFolders = DoneNames
          /\ WrittenDocs = { DocPath(UnitSlug(u)) : u \in { v \in Units : unitState[v] = "done" } }
    /\ mode = "resume" => processedFolders = << Sentinel >> /\ WrittenDocs = {}
    /\ mode = "none" => processedFolders = << >>

C31_Witness ==
    /\ mode = "normal"
    /\ pc = "branch"
    /\ Len(folders) = 2
    /\ unitState[1] = "failed"
    /\ unitState[2] = "done"
    /\ processedFolders = << folders[2].name >>

\* The uncommitted changes under the content path that belong to unit u.
UnitChanges(u) == { p \in ContentChanges : p.slug = UnitSlug(u) }

\* Every unit of the run failed or was skipped.
NothingProcessed ==
    /\ pc = "done"
    /\ mode = "normal"
    /\ folders # << >>
    /\ \A u \in 1..Len(folders) : unitState[u] \in { "failed", "skipped" }

\* C32: a unit that ends as failed leaves no uncommitted change under the
\* content path, neither its document nor an asset file; so a run that
\* started on a clean tree and in which every unit failed or was skipped
\* leaves a tree on which the next run starts in normal mode.
C32_AsStated ==
    (~startDirty /\ run >= 1) =>
        /\ \A u \in Units : unitState[u] = "failed" => UnitChanges(u) = {}
        /\ NothingProcessed => ~HasChanges(ContentChanges)

\* The path is the document or an asset of a unit of the ChangeSet.
OfChangeSet(p) ==
    /\ p.top = "docs"
    /\ \E u \in Units : unitState[u] = "done" /\ p.slug = UnitSlug(u)

\* C33: in a normal-mode run the commit holds only file changes of the units
\* in the ChangeSet, their documents and assets: no file of a unit that failed
\* or was skipped and no change outside the content path that was in the
\* working tree before the run.
C33_AsStated ==
    mode = "normal" =>
        \A i \in 1..Len(commits) :
            commits[i].run = run => \A p \in commits[i].files : OfChangeSet(p)

\* The run has gone through createAndSubmitMergeRequest and ended with
\* success.
SubmittedWithSuccess == pc = "done" /\ exitCode = "0" /\ changesDetected

\* C34: every run that reaches the version-control automation and ends with
\* success leaves the repository on the branch it started on, with no
\* uncommitted change under the content path, so that the following run does
\* not start in resume mode.
C34_AsStated ==
    SubmittedWithSuccess => (branch = baseBranch /\ ~HasChanges(ContentChanges))

\* The checkout back to the base branch has failed and was only logged: the
\* last operation on the repository is not a checkout and the sync branch is
\* still checked out.
ReturnOnlyLogged ==
    /\ faults > 0
    /\ vcLog[Len(vcLog)] # "checkout"
    /\ branch = branchName

\* C34, amended: every run that reaches the version-control automation and
\* ends with success leaves no uncommitted change under the content path, so
\* that the following run does not start in resume mode; it leaves the
\* repository on the branch it started on, unless the checkout back failed,
\* which is only logged and leaves the sync branch checked out.
C34_SuccessLeavesClean ==
    SubmittedWithSuccess =>
        /\ ~HasChanges(ContentChanges)
        /\ Len(commits) >= 1 /\ commits[Len(commits)].run = run
        /\ branch = baseBranch \/ ReturnOnlyLogged

C34_Witness ==
    /\ SubmittedWithSuccess
    /\ mode = "normal"
    /\ branch = baseBranch
    /\ vcLog[Len(vcLog)] = "checkout"
    /\ \E m \in mrs : m.source = branchName

\* The status lists a changed file whose path begins with the content path.
UnderContentPath == \E p \in Changes : p.top = "docs"

\* C35: resume mode is entered exactly when the status of the repository
\* reports a changed file under the content path: changes outside the content
\* path alone never lead to it, and a status that cannot be read counts as no
\* change, so that the run goes on in normal mode.
C35_ResumeExactly ==
    /\ mode # "none" =>
          /\ mode = "resume" <=> (statusRead = "read" /\ startDirty)
          /\ statusRead = "unreadable" => mode = "normal"
    /\ (pc = "context" /\ statusRead = "read") => ~UnderContentPath
    /\ (pc = "branch" /\ mode = "resume") => UnderContentPath
    /\ pc = "context" => mode = "normal"

C35_Witness ==
    /\ OtherPath \in wt.extra
    /\ ~UnderContentPath
    /\ statusRead = "read"
    /\ mode = "normal"
    /\ pc = "context"

\* checkIfUpdateNeeded throws inside its try in this step: the listing of
\* the folder fails, or the time of the watermark cannot be formatted.
CheckThrows ==
    \/ faults' > faults
    \/ /\ extractMetadata(CheckedContent).lastSync = InvalidDate
       /\ driveFiles[Folder.id] # << >>

\* C36: the check of a document with a watermark fails open: when the
\* listing of the unit's items fails or another exception occurs in
\* checkIfUpdateNeeded, it returns true, no error leaves it, and the unit goes
\* on to regeneration.
C36_FailsOpen ==
    [][ (/\ ChecksNow
         /\ CheckedContent # NoFile
         /\ ~extractMetadata(CheckedContent).null
         /\ CheckThrows) =>
            /\ pc' = "listFiles"
            /\ idx' = idx
            /\ unitState' = unitState
            /\ error' = error ]_vars

C36_Witness ==
    /\ pc = "listFiles"
    /\ idx = 1
    /\ faults = 1
    /\ statusRead = "read"
    /\ contextDocuments = ContextFiles(RootFiles)
    /\ WatermarkCurrent(1)

\* C37: baseBranch is null until createBranch has returned, and from then on
\* it is the branch that was checked out when createBranch was called; when
\* createBranch fails, at the pull or at the checkout, the catch of sync
\* checks nothing out and the repository stays on the branch the run started
\* on.
C37_BaseBranch ==
    /\ [](baseBranch # NoBranch => \E i \in 1..Len(vcLog) : vcLog[i] = "branch")
    /\ [][ /\ baseBranch' \notin { baseBranch, NoBranch } =>
                 /\ pc = "branch" /\ pc' = "commit"
                 /\ baseBranch' = branch
                 /\ branch' = branchName'
           /\ (baseBranch # NoBranch /\ pc' \notin { "validate", "crashed" }) =>
                 baseBranch' = baseBranch
           /\ (pc = "branch" /\ pc' = "catch") =>
                 /\ baseBranch' = NoBranch
                 /\ branch' = branch
           /\ (pc = "catch" /\ error = "branch" /\ pc' # "crashed") =>
                 /\ pc' = "failed"
                 /\ branch' = branch
                 /\ vcLog' = vcLog
                 /\ faults' = faults ]_vars

C37_Witness ==
    /\ pc = "failed"
    /\ error = "branch"
    /\ baseBranch = NoBranch
    /\ run = 2
    /\ branch # MainBranch
    /\ \A i \in 1..Len(vcLog) : vcLog[i] # "checkout"

====
